---- MODULE Spec2Model ----
(***************************************************************************)
(* Online control logic of application/streamer.py (class Streamer):       *)
(* marker handling and skip-first prediction dispatch, the prediction and  *)
(* training timing arithmetic, the band-pass / notch conditioning of a     *)
(* snapshot and the per-channel quality scoring.                           *)
(*                                                                         *)
(* Conventions                                                             *)
(*  - A trigger value is a sequence: <<>> is the empty string '' and <<v>> *)
(*    the value v; IntOf is int(trigger).                                  *)
(*  - Wall-clock time (time.time()) is counted in ticks, TicksPerSec ticks *)
(*    to the second, so that fractional seconds occur.                     *)
(*  - A text box holds <<"num", v>>, <<"empty", 0>> ('' ) or <<"bad", 0>>  *)
(*    (text float() cannot parse).  Frequencies are whole Hz.              *)
(*  - A channel's samples are abstracted by the sequence of DataFilter     *)
(*    operations applied to them in place: two channel vectors are equal   *)
(*    iff the same operations were applied in the same order.              *)
(*  - calls is the ordered list of calls to collaborators (board,          *)
(*    classifier, executor, LSL outlets) made by the last handler that ran.*)
(***************************************************************************)
EXTENDS Integers, Sequences, FiniteSets, TLC

VARIABLES
    \* configuration and the values __init__ derives from it
    on_time, nclasses, sampling_rate, window_size,
    off_time, prediction_interval, prediction_datapoints,
    \* session state
    prediction_mode, first_prediction, start_training_time,
    classifier, clf_prediction_mode,
    \* the executor's submitted and unfinished _predict_class tasks: their
    \* number, and in submission order whether a worker has taken each
    pending, tasks,
    \* the array each of those tasks was submitted with, by the identity of
    \* the object, and the array the last step pulled or worked on (0: none).
    \* Identities are names: the arrays still held are renumbered in the order
    \* of the tasks when one is released, and snap keeps the name the array
    \* had when the step began.
    task_data, snap,
    \* a classifier.train call is in progress
    training,
    \* wall clock
    now,
    \* filter widgets
    bandpass_checked, bandpass_box_low, bandpass_box_high,
    notch_checked, notch_box,
    \* the tick: streaming flag, raw chunk counter, cached snapshot, and
    \* the pulled data as filter_data_buffer left it on the last tick
    is_streaming, chunk_counter, filtered_eeg, cond,
    \* quality scoring: threshold table, the channel scored last, its result
    quality_thresholds, eeg_sample, quality,
    \* the scores update_quality_indicators published last, one per row scored
    quality_report,
    \* how far __init__ has come: "new", "running" once app.exec_() is
    \* entered, or the line at which it raised
    startup,
    \* what the last handler did, and the session as it found it
    last, calls, pre,
    \* history
    enables, since_enable, n_boundary, n_skip, n_request

vars == <<on_time, nclasses, sampling_rate, window_size, startup, off_time, prediction_interval,
          prediction_datapoints, prediction_mode, first_prediction,
          start_training_time, classifier, clf_prediction_mode, pending, now,
          bandpass_checked, bandpass_box_low, bandpass_box_high,
          notch_checked, notch_box, is_streaming, chunk_counter,
          filtered_eeg, cond, quality_thresholds, eeg_sample, quality,
          quality_report, last, calls, pre, tasks, training, task_data, snap,
          enables, since_enable, n_boundary, n_skip, n_request>>

configVars == <<on_time, nclasses, sampling_rate, window_size, startup, off_time,
                prediction_interval, prediction_datapoints>>

guiVars == <<bandpass_checked, bandpass_box_low, bandpass_box_high,
             notch_checked, notch_box>>

histVars == <<enables, since_enable, n_boundary, n_skip, n_request>>

tickVars == <<is_streaming, chunk_counter, filtered_eeg, cond>>

scoreVars == <<quality_thresholds, eeg_sample, quality, quality_report>>

sessionVars == <<prediction_mode, first_prediction, start_training_time,
                 classifier, clf_prediction_mode, pending, now>>

poolVars == <<tasks, training, task_data>>

(* The session as a handler finds it on entry *)
Pre ==
    [mode |-> prediction_mode, first |-> first_prediction,
     start |-> start_training_time, pending |-> pending,
     since |-> since_enable, enables |-> enables,
     data |-> task_data]

-----------------------------------------------------------------------------
(* Bounds of the model *)

MaxTime == 2
TicksPerSec == 2
MaxPending == 1
MaxBoundaries == 2
MaxMarker == 4

OnTimes == {250, 333}
ClassCounts == {1, 4}
SamplingRates == {125, 250}

Empty == <<>>
Triggers == {Empty} \cup {<<v>> : v \in 0..MaxMarker}

NoAttr == -1

(* __init__, line 34: window_size=1 *)
WindowSize == 1

-----------------------------------------------------------------------------
(* Python's int(): truncation toward zero of the quotient num / den *)

PyInt(num, den) ==
    IF num >= 0 THEN num \div den ELSE -((-num) \div den)

IntOf(trigger) == trigger[1]

(* __init__, lines 78-84 *)
OffTime(on, n) == on * (n - 1)

\* mutant: the interval is not doubled
PredictionIntervalSingle(on, off) == PyInt(on + off, 1)

PredictionInterval(on, off) == PyInt(on + off, 1) * 2

PredictionDatapoints(interval, fs) == PyInt(interval * fs, 1000)

\* mutant: the one-second margin is left out
TrainingIntervalNoMargin(start, end, fs) ==
    PyInt((end - start) * fs, TicksPerSec)

(* train_classifier, lines 432-434: times in ticks *)
TrainingInterval(start, end, fs) ==
    PyInt((end - start + TicksPerSec) * fs, TicksPerSec)


-----------------------------------------------------------------------------
(* Signal conditioning: filter_data_buffer and its two stages.             *)
(* policy is the acquisition library's answer to a filter request the code *)
(* has let through: "none" accepts every band, "negative" raises the       *)
(* ValueError the code's except clauses expect for a band that starts      *)
(* below 0 Hz.                                                             *)

NumChannels == 2
NotchBandwidth == 2

Policies == {"none", "negative"}

Num(v) == <<"num", v>>
EmptyText == <<"empty", 0>>
BadText == <<"bad", 0>>

FreshData == [c \in 1..NumChannels |-> <<>>]

NoCond ==
    [data |-> FreshData, log |-> <<>>, exc |-> "none", policy |-> "none",
     trace |-> <<>>]

NoQuality == [color |-> "", amplitude4 |-> 0, q_score |-> 0]

(* __init__, lines 46-47: (low, high, colour, score); scores in tenths *)
DefaultThresholds ==
    << <<-100, -50, "yellow", 5>>, <<-50, 50, "green", 10>>,
       <<50, 100, "yellow", 5>> >>

LibRejects(policy, start_freq, stop_freq) ==
    policy = "negative" /\ start_freq < 0

\* mutant: the comparison with half the sampling rate is left out
ApplyBandpassFilterNoNyquist(ch_data, start_freq, stop_freq, policy) ==
    LET detrended == Append(ch_data, <<"detrend", 0, 0>>)
    IN  IF start_freq >= stop_freq
        THEN [data |-> detrended, log |-> <<"order">>]
        ELSE IF start_freq < 0 \/ stop_freq < 0
        THEN [data |-> detrended, log |-> <<"positive">>]
        ELSE IF LibRejects(policy, start_freq, stop_freq)
        THEN [data |-> detrended, log |-> <<"invalid">>]
        ELSE [data |-> Append(detrended, <<"bandpass", start_freq, stop_freq>>),
              log |-> <<>>]

(* apply_bandpass_filter, lines 513-529 *)
ApplyBandpassFilter(ch_data, start_freq, stop_freq, policy) ==
    LET detrended == Append(ch_data, <<"detrend", 0, 0>>)
    IN  IF start_freq >= stop_freq
        THEN [data |-> detrended, log |-> <<"order">>]
        ELSE IF start_freq < 0 \/ stop_freq < 0
        THEN [data |-> detrended, log |-> <<"positive">>]
        ELSE IF 2 * start_freq > sampling_rate \/ 2 * stop_freq > sampling_rate
        THEN [data |-> detrended, log |-> <<"nyquist">>]
        ELSE IF LibRejects(policy, start_freq, stop_freq)
        THEN [data |-> detrended, log |-> <<"invalid">>]
        ELSE [data |-> Append(detrended, <<"bandpass", start_freq, stop_freq>>),
              log |-> <<>>]

(* apply_notch_filter, lines 533-540: the validation loop *)
RECURSIVE NotchValidate(_, _)
NotchValidate(freqs, i) ==
    IF i > Len(freqs) THEN "ok"
    ELSE IF freqs[i][1] # "num" THEN "ValueError"
    ELSE IF freqs[i][2] < 0 THEN "positive"
    ELSE IF 2 * freqs[i][2] > sampling_rate THEN "nyquist"
    ELSE NotchValidate(freqs, i + 1)

(* apply_notch_filter, lines 541-548: the band-stop loop inside try *)
RECURSIVE NotchApply(_, _, _, _)
NotchApply(ch_data, freqs, i, policy) ==
    IF i > Len(freqs) THEN [data |-> ch_data, log |-> <<>>]
    ELSE LET start_freq == freqs[i][2] - NotchBandwidth
             end_freq == freqs[i][2] + NotchBandwidth
         IN  IF LibRejects(policy, start_freq, end_freq)
             THEN [data |-> ch_data, log |-> <<"invalid">>]
             ELSE NotchApply(Append(ch_data, <<"bandstop", start_freq, end_freq>>),
                             freqs, i + 1, policy)

(* apply_notch_filter, lines 531-548 *)
ApplyNotchFilter(ch_data, freqs, policy) ==
    LET v == NotchValidate(freqs, 1)
    IN  IF v = "ValueError"
        THEN [data |-> ch_data, log |-> <<>>, exc |-> "ValueError"]
        ELSE IF v # "ok"
        THEN [data |-> ch_data, log |-> <<v>>, exc |-> "none"]
        ELSE LET r == NotchApply(ch_data, freqs, 1, policy)
             IN  [data |-> r.data, log |-> r.log, exc |-> "none"]

(* filter_data_buffer, lines 505-508: float(text) if text != '' else 0 *)
BoxValue(text) == IF text[1] = "empty" THEN 0 ELSE text[2]

(* filter_data_buffer, lines 504-511: one pass of the loop body.  trace  *)
(* lists the calls of the two stages with the channel vector before and   *)
(* after each; float() of a band-pass box fails before the stage is       *)
(* called.                                                                 *)
FilterChannel(ch_data, policy) ==
    LET none == [data |-> ch_data, log |-> <<>>, exc |-> "none", trace |-> <<>>]
        bp == IF ~bandpass_checked
              THEN none
              ELSE IF bandpass_box_low[1] = "bad" \/ bandpass_box_high[1] = "bad"
              THEN [none EXCEPT !.exc = "ValueError"]
              ELSE LET start_freq == BoxValue(bandpass_box_low)
                       stop_freq == BoxValue(bandpass_box_high)
                       r == ApplyBandpassFilter(ch_data, start_freq, stop_freq,
                                                policy)
                   IN  [data |-> r.data, log |-> r.log, exc |-> "none",
                        trace |-> << [stage |-> "bandpass",
                                      freqs |-> <<Num(start_freq), Num(stop_freq)>>,
                                      before |-> ch_data, after |-> r.data,
                                      exc |-> "none"] >>]
    IN  IF bp.exc # "none" \/ ~notch_checked
        THEN bp
        ELSE LET n == ApplyNotchFilter(bp.data, notch_box, policy)
             IN  [data |-> n.data, log |-> bp.log \o n.log, exc |-> n.exc,
                  trace |-> Append(bp.trace,
                                   [stage |-> "notch", freqs |-> notch_box,
                                    before |-> bp.data, after |-> n.data,
                                    exc |-> n.exc])]

(* filter_data_buffer, lines 499-511: the loop over the channels; an      *)
(* exception leaves the channels already handled filtered                  *)
RECURSIVE FilterFrom(_, _, _, _, _)
FilterFrom(data, count, log, trace, policy) ==
    IF count > NumChannels
    THEN [data |-> data, log |-> log, exc |-> "none", trace |-> trace]
    ELSE LET r == FilterChannel(data[count], policy)
             d == [data EXCEPT ![count] = r.data]
         IN  IF r.exc # "none"
             THEN [data |-> d, log |-> log \o r.log, exc |-> r.exc,
                   trace |-> trace \o r.trace]
             ELSE FilterFrom(d, count + 1, log \o r.log, trace \o r.trace,
                             policy)

FilterDataBuffer(data, policy) == FilterFrom(data, 1, <<>>, <<>>, policy)

-----------------------------------------------------------------------------
(* The session: markers, the predicting toggle, training, the executor *)

Min(a, b) == IF a < b THEN a ELSE b

Count(seq, name) == Cardinality({i \in 1..Len(seq) : seq[i][1] = name})

B2N(b) == IF b THEN 1 ELSE 0

(* the arrays the submitted and unfinished tasks hold *)
Held == {task_data[k] : k \in 1..Len(task_data)}

\* mutant: the board hands out one and the same buffer on every pull
SharedSnapshot(held) == 1

(* get_current_board_data returns a newly allocated array on every call,  *)
(* lines 264, 350, 436 and 460: an object distinct from every array still *)
(* referenced.  Besides the local of the caller, which ends with the      *)
(* handler, only the submitted tasks keep a reference (line 461).         *)
FreshSnapshot(held) ==
    CHOOSE id \in 1..(Cardinality(held) + 1) :
        id \notin held /\ \A j \in 1..(id - 1) : j \in held

(* the arrays left when a task is gone, renumbered by first holder *)
Renumber(seq) ==
    [k \in 1..Len(seq) |->
        LET first == CHOOSE j \in 1..k :
                        seq[j] = seq[k] /\ \A h \in 1..(j - 1) : seq[h] # seq[k]
        IN  Cardinality({seq[j] : j \in 1..first})]

(* the array a handler works on: the one its pull returned, if it did *)
Snapshot(cs, pull_ok) ==
    IF pull_ok /\ Count(cs, "get_current_board_data") = 1
    THEN FreshSnapshot(Held)
    ELSE 0

\* mutant: the first boundary is not skipped
TriggerEffectNoSkip(v) ==
    IF prediction_mode /\ v = nclasses
    THEN [predict |-> TRUE, first |-> FALSE]
    ELSE [predict |-> FALSE, first |-> first_prediction]

\* mutant: prediction_mode is not consulted
TriggerEffectAnyMode(v) ==
    IF v = nclasses /\ ~first_prediction
    THEN [predict |-> TRUE, first |-> first_prediction]
    ELSE IF v = nclasses /\ first_prediction
    THEN [predict |-> FALSE, first |-> FALSE]
    ELSE [predict |-> FALSE, first |-> first_prediction]

\* mutant: the marker value is not compared with nclasses
TriggerEffectAnyValue(v) ==
    IF prediction_mode
    THEN IF ~first_prediction
         THEN [predict |-> TRUE, first |-> first_prediction]
         ELSE [predict |-> FALSE, first |-> FALSE]
    ELSE [predict |-> FALSE, first |-> first_prediction]

(* write_trigger, lines 415-420: what a marker of value v does to the     *)
(* session, given the flags                                                *)
TriggerEffect(v) ==
    IF prediction_mode
    THEN IF v = nclasses /\ ~first_prediction
         THEN [predict |-> TRUE, first |-> first_prediction]
         ELSE IF v = nclasses /\ first_prediction
         THEN [predict |-> FALSE, first |-> FALSE]
         ELSE [predict |-> FALSE, first |-> first_prediction]
    ELSE [predict |-> FALSE, first |-> first_prediction]

(* write_trigger, lines 409-414: '' is refused, anything else is passed   *)
(* to board.insert_marker as int(trigger)                                  *)
TriggerRejected(trigger) == trigger = Empty

\* mutant: the handler waits for the task it has submitted
PredictClassInline(pull_ok, policy) ==
    LET pull == <<"get_current_board_data", prediction_datapoints>>
        f == FilterDataBuffer(FreshData, policy)
    IN  IF ~pull_ok
        THEN [calls |-> <<<<"predict_class", 0>>, pull>>,
              submitted |-> FALSE, exc |-> "logged"]
        ELSE IF f.exc # "none"
        THEN [calls |-> <<<<"predict_class", 0>>, pull,
                          <<"filter_data_buffer", prediction_datapoints>>>>,
              submitted |-> FALSE, exc |-> "logged"]
        ELSE [calls |-> <<<<"predict_class", 0>>, pull,
                          <<"filter_data_buffer", prediction_datapoints>>,
                          <<"submit", prediction_datapoints>>,
                          <<"predict", 0>>>>,
              submitted |-> FALSE, exc |-> "none"]

\* mutant: the array is submitted although its conditioning has raised
PredictClassUnguarded(pull_ok, policy) ==
    LET pull == <<"get_current_board_data", prediction_datapoints>>
        f == FilterDataBuffer(FreshData, policy)
    IN  IF ~pull_ok
        THEN [calls |-> <<<<"predict_class", 0>>, pull>>,
              submitted |-> FALSE, exc |-> "logged"]
        ELSE [calls |-> <<<<"predict_class", 0>>, pull,
                          <<"filter_data_buffer", prediction_datapoints>>,
                          <<"submit", prediction_datapoints>>>>,
              submitted |-> TRUE,
              exc |-> IF f.exc # "none" THEN "logged" ELSE "none"]

(* predict_class, lines 457-464: pull, condition, submit; any exception   *)
(* is caught and logged                                                    *)
PredictClass(pull_ok, policy) ==
    LET pull == <<"get_current_board_data", prediction_datapoints>>
        f == FilterDataBuffer(FreshData, policy)
    IN  IF ~pull_ok
        THEN [calls |-> <<<<"predict_class", 0>>, pull>>,
              submitted |-> FALSE, exc |-> "logged"]
        ELSE IF f.exc # "none"
        THEN [calls |-> <<<<"predict_class", 0>>, pull,
                          <<"filter_data_buffer", prediction_datapoints>>>>,
              submitted |-> FALSE, exc |-> "logged"]
        ELSE [calls |-> <<<<"predict_class", 0>>, pull,
                          <<"filter_data_buffer", prediction_datapoints>>,
                          <<"submit", prediction_datapoints>>>>,
              submitted |-> TRUE, exc |-> "none"]

(* write_trigger, lines 403-420.  The timestamp argument is only replaced *)
(* by time.time() when 0 and never used.  The last two arguments bound    *)
(* the boundary markers handled and the tasks outstanding.                 *)
WriteTriggerWithin(trigger, pull_ok, policy, max_boundaries, max_pending) ==
    IF TriggerRejected(trigger)
    THEN /\ last' = [op |-> "write_trigger", arg |-> trigger, exc |-> "logged"]
         /\ calls' = <<>>
         /\ pre' = Pre
         /\ snap' = 0
         /\ UNCHANGED <<poolVars, configVars, guiVars, tickVars, scoreVars, histVars, prediction_mode,
                        first_prediction, start_training_time, classifier,
                        clf_prediction_mode, pending, now>>
    ELSE LET v == IntOf(trigger)
             e == TriggerEffect(v)
             p == IF e.predict
                  THEN PredictClass(pull_ok, policy)
                  ELSE [calls |-> <<>>, submitted |-> FALSE, exc |-> "none"]
             boundary == prediction_mode /\ v = nclasses
         IN  /\ boundary => n_boundary < max_boundaries
             /\ p.submitted => pending < max_pending
             /\ calls' = <<<<"insert_marker", v>>>> \o p.calls
             /\ pre' = Pre
             /\ last' = [op |-> "write_trigger", arg |-> trigger, exc |-> p.exc]
             /\ first_prediction' = e.first
             /\ pending' = pending + B2N(p.submitted)
             /\ tasks' = IF p.submitted THEN Append(tasks, "queued") ELSE tasks
             /\ snap' = Snapshot(p.calls, pull_ok)
             /\ task_data' = IF p.submitted THEN Append(task_data, snap')
                                            ELSE task_data
             /\ n_boundary' = n_boundary + B2N(boundary)
             /\ n_request' = n_request + Count(p.calls, "predict_class")
             /\ n_skip' = n_skip + B2N(first_prediction /\ ~e.first)
             /\ since_enable' = Min(2, since_enable + B2N(boundary))
             /\ UNCHANGED <<training, configVars, guiVars, tickVars, scoreVars, enables, prediction_mode,
                            start_training_time, classifier,
                            clf_prediction_mode, now>>

WriteTrigger(trigger, pull_ok, policy) ==
    WriteTriggerWithin(trigger, pull_ok, policy, MaxBoundaries, MaxPending)

(* set_prediction_mode, lines 254-257: the slot of both start_predicting  *)
(* and stop_predicting (lines 94-95)                                       *)
ToggledMode(sig) == ~prediction_mode

FirstPredictionOnToggle(sig) == first_prediction

SetPredictionMode(sig) ==
    /\ prediction_mode' = ToggledMode(sig)
    /\ pre' = Pre
    /\ first_prediction' = FirstPredictionOnToggle(sig)
    /\ IF classifier = "None"
       THEN /\ clf_prediction_mode' = clf_prediction_mode
            /\ calls' = <<>>
            /\ last' = [op |-> sig, arg |-> <<>>, exc |-> "AttributeError"]
       ELSE /\ clf_prediction_mode' = prediction_mode'
            /\ calls' = <<<<"set_prediction_mode", B2N(prediction_mode')>>>>
            /\ last' = [op |-> sig, arg |-> <<>>, exc |-> "none"]
    /\ enables' = IF prediction_mode' THEN Min(2, enables + 1) ELSE enables
    /\ since_enable' = IF prediction_mode' THEN 0 ELSE since_enable
    /\ snap' = 0
    /\ UNCHANGED <<poolVars, configVars, guiVars, tickVars, scoreVars, start_training_time, classifier,
                   pending, now, n_boundary, n_skip, n_request>>

\* mutant: arming the training also re-arms the skip of the first boundary
SetTrainStartResets ==
    /\ start_training_time' = now
    /\ first_prediction' = TRUE
    /\ calls' = <<>>
    /\ pre' = Pre
    /\ last' = [op |-> "set_train_start", arg |-> <<>>, exc |-> "none"]
    /\ snap' = 0
    /\ UNCHANGED <<poolVars, configVars, guiVars, tickVars, scoreVars, histVars,
                   prediction_mode, classifier, clf_prediction_mode,
                   pending, now>>

(* set_train_start, lines 426-428 *)
SetTrainStart ==
    /\ start_training_time' = now
    /\ calls' = <<>>
    /\ pre' = Pre
    /\ last' = [op |-> "set_train_start", arg |-> <<>>, exc |-> "none"]
    /\ snap' = 0
    /\ UNCHANGED <<poolVars, configVars, guiVars, tickVars, scoreVars, histVars, prediction_mode,
                   first_prediction, classifier, clf_prediction_mode,
                   pending, now>>

(* train_classifier, lines 430-438.  start_training_time does not exist   *)
(* before the first set_train_start; no exception is caught here.          *)
TrainCalls(pull_ok, policy, train_ok) ==
    IF start_training_time = NoAttr
    THEN [calls |-> <<>>, exc |-> "AttributeError"]
    ELSE LET n == TrainingInterval(start_training_time, now, sampling_rate)
             pull == <<"get_current_board_data", n>>
             f == FilterDataBuffer(FreshData, policy)
         IN  IF ~pull_ok
             THEN [calls |-> <<pull>>, exc |-> "BoardError"]
             ELSE IF f.exc # "none"
             THEN [calls |-> <<pull, <<"filter_data_buffer", n>>>>,
                   exc |-> f.exc]
             ELSE IF classifier = "None"
             THEN [calls |-> <<pull, <<"filter_data_buffer", n>>>>,
                   exc |-> "AttributeError"]
             ELSE [calls |-> <<pull, <<"filter_data_buffer", n>>, <<"train", n>>>>,
                   exc |-> IF train_ok THEN "none" ELSE "TrainError"]

TrainClassifier(pull_ok, policy, train_ok) ==
    LET t == TrainCalls(pull_ok, policy, train_ok)
    IN  /\ calls' = t.calls
        /\ pre' = Pre
        /\ last' = [op |-> "train_classifier", arg |-> <<>>, exc |-> t.exc]
        /\ snap' = Snapshot(t.calls, pull_ok)
        /\ UNCHANGED <<poolVars, configVars, guiVars, tickVars, scoreVars, histVars, prediction_mode,
                       first_prediction, start_training_time, classifier,
                       clf_prediction_mode, pending, now>>

(* init_classifier, lines 422-424, run by classifier_thread (lines 70-73) *)
InitClassifier ==
    /\ classifier = "None"
    /\ classifier' = "ready"
    /\ calls' = <<>>
    /\ pre' = Pre
    /\ last' = [op |-> "init_classifier", arg |-> <<>>, exc |-> "none"]
    /\ snap' = 0
    /\ UNCHANGED <<poolVars, configVars, guiVars, tickVars, scoreVars, histVars, prediction_mode,
                   first_prediction, start_training_time,
                   clf_prediction_mode, pending, now>>

\* mutant: the result is pushed although predict has raised
RunTaskPublishAnyway(predict_ok, push_ok) ==
    IF classifier # "ready"
    THEN [calls |-> <<>>, exc |-> "logged"]
    ELSE IF ~push_ok
    THEN [calls |-> <<<<"predict", 0>>, <<"push_lsl_prediction", 0>>>>,
          exc |-> "logged"]
    ELSE [calls |-> <<<<"predict", 0>>, <<"push_lsl_prediction", 1>>>>,
          exc |-> IF predict_ok THEN "none" ELSE "logged"]

(* _predict_class, lines 448-455: the body of one task.  Every exception  *)
(* is caught and logged: self.classifier still None, predict raising,     *)
(* push_lsl_prediction raising.  The argument of the push call is 1 when  *)
(* the sample went out and 0 when the push raised.                         *)
RunTask(predict_ok, push_ok) ==
    IF classifier # "ready"
    THEN [calls |-> <<>>, exc |-> "logged"]
    ELSE IF ~predict_ok
    THEN [calls |-> <<<<"predict", 0>>>>, exc |-> "logged"]
    ELSE IF ~push_ok
    THEN [calls |-> <<<<"predict", 0>>, <<"push_lsl_prediction", 0>>>>,
          exc |-> "logged"]
    ELSE [calls |-> <<<<"predict", 0>>, <<"push_lsl_prediction", 1>>>>,
          exc |-> "none"]

(* _predict_class, lines 448-455, run by a worker of the executor: the    *)
(* oldest task is taken and run to its end in one step                     *)
WorkerPredict(predict_ok, push_ok) ==
    LET r == RunTask(predict_ok, push_ok)
    IN  /\ pending > 0
        /\ tasks[1] = "queued"
        /\ pending' = pending - 1
        /\ tasks' = Tail(tasks)
        /\ snap' = task_data[1]
        /\ task_data' = Renumber(Tail(task_data))
        /\ pre' = Pre
        /\ calls' = r.calls
        /\ last' = [op |-> "_predict_class", arg |-> <<>>, exc |-> r.exc]
        /\ UNCHANGED <<training, configVars, guiVars, tickVars, scoreVars,
                       histVars, prediction_mode, first_prediction,
                       start_training_time, classifier, clf_prediction_mode,
                       now>>

(* time.time() advances *)
TimePasses ==
    /\ now < MaxTime
    /\ now' = now + 1
    /\ calls' = <<>>
    /\ last' = [op |-> "time", arg |-> <<>>, exc |-> "none"]
    /\ pre' = Pre
    /\ snap' = 0
    /\ UNCHANGED <<poolVars, configVars, guiVars, tickVars, scoreVars, histVars, prediction_mode,
                   first_prediction, start_training_time, classifier,
                   clf_prediction_mode, pending>>

-----------------------------------------------------------------------------
(* __init__, lines 34-96: the state when the event loop starts.  The      *)
(* filter widgets of the session start either as create_buttons leaves    *)
(* them or with the notch filter ticked and its box cleared.               *)

GuiStarts ==
    { [nc |-> FALSE, nb |-> <<Num(50), Num(60)>>],
      [nc |-> TRUE, nb |-> <<BadText>>] }

InitAttributes ==
    /\ prediction_mode = FALSE
    /\ first_prediction = TRUE
    /\ start_training_time = NoAttr
    /\ classifier = "None"
    /\ clf_prediction_mode = FALSE
    /\ pending = 0
    /\ tasks = <<>>
    /\ task_data = <<>>
    /\ snap = 0
    /\ training = FALSE
    /\ now = 0
    /\ is_streaming = TRUE
    /\ chunk_counter = 0
    /\ filtered_eeg = FreshData
    /\ cond = NoCond
    /\ eeg_sample = <<>>
    /\ quality = NoQuality
    /\ quality_report = <<>>
    /\ last = [op |-> "__init__", arg |-> <<>>, exc |-> "none"]
    /\ calls = <<>>
    /\ enables = 0
    /\ since_enable = 0
    /\ n_boundary = 0
    /\ n_skip = 0
    /\ n_request = 0
    /\ pre = Pre

(* a session whose __init__ has reached app.exec_(), line 133, with the   *)
(* default window_size of line 34                                          *)
InitSession ==
    /\ window_size = WindowSize
    /\ startup = "running"
    /\ InitAttributes

InitTiming(on, n, fs) ==
    /\ on_time = on
    /\ nclasses = n
    /\ sampling_rate = fs
    /\ off_time = OffTime(on_time, nclasses)
    /\ prediction_interval = PredictionInterval(on_time, off_time)
    /\ prediction_datapoints = PredictionDatapoints(prediction_interval, sampling_rate)

(* create_buttons, lines 168-185: both boxes unticked, '1', '40', '50, 60' *)
InitBandpass ==
    /\ bandpass_checked = FALSE
    /\ bandpass_box_low = Num(1)
    /\ bandpass_box_high = Num(40)

Init ==
    /\ \E on \in OnTimes, n \in ClassCounts, fs \in SamplingRates :
          InitTiming(on, n, fs)
    /\ InitBandpass
    /\ \E g \in GuiStarts : notch_checked = g.nc /\ notch_box = g.nb
    /\ quality_thresholds = DefaultThresholds
    /\ InitSession

Next ==
    \/ \E trigger \in Triggers, pull_ok \in BOOLEAN, policy \in Policies :
          WriteTrigger(trigger, pull_ok, policy)
    \/ \E sig \in {"start_predicting", "stop_predicting"} : SetPredictionMode(sig)
    \/ SetTrainStart
    \/ \E pull_ok \in BOOLEAN, policy \in Policies, train_ok \in BOOLEAN :
          TrainClassifier(pull_ok, policy, train_ok)
    \/ InitClassifier
    \/ \E predict_ok \in BOOLEAN, push_ok \in BOOLEAN :
          WorkerPredict(predict_ok, push_ok)
    \/ TimePasses

Spec == Init /\ [][Next]_vars

-----------------------------------------------------------------------------
(* Properties of the session.  last, calls and pre describe the step    *)
(* that led to the state, so now is still the time the handler read.     *)

Requests(cs) == Count(cs, "predict_class")

BoundaryTrigger == <<nclasses>>

IsPrefix(a, b) == Len(a) <= Len(b) /\ a = SubSeq(b, 1, Len(a))

Marker == last.op = "write_trigger"

\* C1: in the first spell of predicting of a session, the first marker equal
\* to nclasses issues no prediction request and clears first_prediction, and
\* every later such marker of that spell issues exactly one request.
C1_SkipFirst ==
    (Marker /\ last.arg = BoundaryTrigger /\ pre.mode /\ pre.enables = 1)
    => IF pre.since = 0
       THEN /\ Requests(calls) = 0
            /\ pending = pre.pending
            /\ pre.first /\ ~first_prediction
       ELSE /\ Requests(calls) = 1
            /\ ~first_prediction

C1_Witness ==
    /\ Marker /\ last.arg = BoundaryTrigger
    /\ pre.mode /\ pre.enables = 1 /\ pre.since >= 1
    /\ Requests(calls) = 1 /\ pending = pre.pending + 1
    /\ n_skip = 1 /\ n_request = MaxBoundaries - 1

\* C2: a marker handled while prediction_mode is off issues no request and
\* leaves first_prediction alone; the requests issued so far number the
\* nclasses markers handled while predicting less the skipped ones; a marker
\* issues at most one request, and only a boundary marker while predicting
\* issues one; no other handler issues any.
C2_RequestsMatchBoundaries ==
    /\ n_request = n_boundary - n_skip
    /\ Requests(calls) <= 1
    /\ Requests(calls) = 1
       => Marker /\ pre.mode /\ last.arg = BoundaryTrigger
    /\ (Marker /\ ~pre.mode)
       => /\ Requests(calls) = 0
          /\ pending = pre.pending
          /\ first_prediction = pre.first

C2_Witness ==
    /\ n_boundary = MaxBoundaries /\ n_skip = 1
    /\ n_request = MaxBoundaries - 1
    /\ Marker /\ ~pre.mode /\ last.arg = BoundaryTrigger
    /\ calls = <<<<"insert_marker", nclasses>>>>

\* C3 (as claimed): whenever predicting is entered first_prediction is set
\* again, so the first nclasses marker of every spell of predicting issues
\* no prediction request.
C3_ResetOnEnter ==
    /\ (last.op \in {"start_predicting", "stop_predicting"} /\ prediction_mode)
       => first_prediction
    /\ (Marker /\ last.arg = BoundaryTrigger /\ pre.mode /\ pre.since = 0)
       => Requests(calls) = 0

\* C4 (as claimed): a marker whose value is empty or zero is not passed to
\* board.insert_marker, issues no prediction request and leaves
\* prediction_mode, first_prediction and start_training_time unchanged.
C4_EmptyOrZeroRejected ==
    (Marker /\ last.arg \in {Empty, <<0>>})
    => /\ Count(calls, "insert_marker") = 0
       /\ Requests(calls) = 0
       /\ prediction_mode = pre.mode
       /\ first_prediction = pre.first
       /\ start_training_time = pre.start

\* C5: a marker with a value other than empty, zero and nclasses is passed
\* exactly once to board.insert_marker and nothing else happens: no request,
\* and prediction_mode, first_prediction, start_training_time unchanged.
C5_OtherMarkerForwarded ==
    (Marker /\ last.arg \notin {Empty, <<0>>, BoundaryTrigger})
    => /\ calls = <<<<"insert_marker", IntOf(last.arg)>>>>
       /\ prediction_mode = pre.mode
       /\ first_prediction = pre.first
       /\ start_training_time = pre.start
       /\ pending = pre.pending

C5_Witness ==
    /\ Marker
    /\ last.arg \notin {Empty, <<0>>, BoundaryTrigger}
    /\ calls = <<<<"insert_marker", IntOf(last.arg)>>>>
    /\ prediction_mode /\ ~first_prediction
    /\ start_training_time # NoAttr

TimingHolds ==
    /\ off_time = on_time * (nclasses - 1)
    /\ prediction_interval = 2 * (on_time + off_time)
    /\ prediction_datapoints = (prediction_interval * sampling_rate) \div 1000

\* C6: off_time = on_time * (nclasses - 1), prediction_interval =
\* 2 * (on_time + off_time), prediction_datapoints =
\* floor(prediction_interval * sampling_rate / 1000); 250 ms, 4 classes and
\* 250 Hz give 750, 2000 and 500; no handler changes any of these values.
C6_Timing ==
    /\ TimingHolds
    /\ OffTime(250, 4) = 750
    /\ PredictionInterval(250, OffTime(250, 4)) = 2000
    /\ PredictionDatapoints(PredictionInterval(250, OffTime(250, 4)), 250) = 500
    /\ [][TimingHolds' /\ UNCHANGED configVars]_vars

C6_Witness ==
    /\ on_time = 333 /\ nclasses = 1 /\ sampling_rate = 250
    /\ prediction_interval = 666 /\ prediction_datapoints = 166
    /\ n_request >= 1 /\ last.op = "train_classifier"

TrainSamples ==
    ((now - pre.start + TicksPerSec) * sampling_rate) \div TicksPerSec

TrainSequence ==
    << <<"get_current_board_data", TrainSamples>>,
       <<"filter_data_buffer", TrainSamples>>,
       <<"train", TrainSamples>> >>

\* C7: set_train_start records the time; a train_classifier that follows
\* pulls exactly floor((t1 - t0 + 1 s) * sampling_rate) samples counted from
\* the latest set_train_start, then conditions them, then calls train once,
\* in that order and nothing else; 5 s at 250 Hz pull 1500 samples.
C7_TrainingPull ==
    /\ last.op = "set_train_start" => start_training_time = now
    /\ (last.op = "train_classifier" /\ pre.start # NoAttr)
       => /\ Len(calls) >= 1
          /\ IsPrefix(calls, TrainSequence)
          /\ last.exc \in {"none", "TrainError"} <=> calls = TrainSequence
    /\ TrainingInterval(0, 5 * TicksPerSec, 250) = 1500

C7_Witness ==
    /\ last.op = "train_classifier" /\ last.exc = "none"
    /\ calls = TrainSequence
    /\ pre.start # NoAttr /\ pre.start < now
    /\ ((now - pre.start + TicksPerSec) * sampling_rate) % TicksPerSec # 0

-----------------------------------------------------------------------------
(* Quality scoring: get_channel_quality, lines 487-497.  Amplitudes are   *)
(* whole numbers; the 75th percentile of n samples interpolates between   *)
(* two order statistics in quarters, so four times the percentile is kept. *)

WindowLen == 2

AmpValues == {-100, -75, -50, 0, 50, 500}

Samples == UNION {[1..n -> AmpValues] : n \in 1..WindowLen}

(* threshold tables a configuration file can give: the default one, one   *)
(* with overlapping ranges, one with gaps, an empty one, one whose first  *)
(* range has low > high                                                    *)
ThresholdTables ==
    { DefaultThresholds,
      << <<-100, 100, "yellow", 5>>, <<-50, 50, "green", 10>> >>,
      << <<-50, -10, "green", 10>>, <<10, 50, "yellow", 5>> >>,
      << >>,
      << <<50, -50, "green", 10>>, <<-100, 100, "orange", 3>>,
         <<-100, 500, "yellow", 5>> >> }

(* the k-th smallest element of s, k = 1..Len(s) *)
KthSmallest(s, k) ==
    CHOOSE v \in {s[i] : i \in 1..Len(s)} :
        /\ Cardinality({i \in 1..Len(s) : s[i] < v}) < k
        /\ k <= Cardinality({i \in 1..Len(s) : s[i] <= v})

(* 4 * np.percentile(eeg, 75), linear interpolation: the virtual index is *)
(* 0.75 * (n - 1) = lo + r / 4 into the sorted samples (0-based)          *)
Percentile75x4(eeg) ==
    LET n == Len(eeg)
        lo == (3 * (n - 1)) \div 4
        r == (3 * (n - 1)) % 4
    IN  IF r = 0
        THEN 4 * KthSmallest(eeg, lo + 1)
        ELSE KthSmallest(eeg, lo + 1) * (4 - r) + KthSmallest(eeg, lo + 2) * r

\* mutant: a later matching entry overrides an earlier one
RECURSIVE ScanThresholdsLast(_, _, _)
ScanThresholdsLast(table, i, amplitude4) ==
    IF i > Len(table) THEN [color |-> "red", q_score |-> 0]
    ELSE LET rest == ScanThresholdsLast(table, i + 1, amplitude4)
         IN  IF rest.color = "red" /\ rest.q_score = 0
                /\ 4 * table[i][1] <= amplitude4 /\ amplitude4 <= 4 * table[i][2]
             THEN [color |-> table[i][3], q_score |-> table[i][4]]
             ELSE rest

(* lines 490-496: the loop over the table from entry i on, with break *)
RECURSIVE ScanThresholds(_, _, _)
ScanThresholds(table, i, amplitude4) ==
    IF i > Len(table) THEN [color |-> "red", q_score |-> 0]
    ELSE IF 4 * table[i][1] <= amplitude4 /\ amplitude4 <= 4 * table[i][2]
    THEN [color |-> table[i][3], q_score |-> table[i][4]]
    ELSE ScanThresholds(table, i + 1, amplitude4)

(* get_channel_quality, lines 487-497 *)
GetChannelQuality(eeg) ==
    LET amplitude4 == Percentile75x4(eeg)
        r == ScanThresholds(quality_thresholds, 1, amplitude4)
    IN  /\ eeg_sample' = eeg
        /\ quality' = [color |-> r.color, amplitude4 |-> amplitude4,
                       q_score |-> r.q_score]
        /\ last' = [op |-> "get_channel_quality", arg |-> <<>>, exc |-> "none"]
        /\ calls' = <<>>
        /\ pre' = Pre
        /\ snap' = 0
        /\ UNCHANGED <<poolVars, configVars, guiVars, tickVars, histVars, sessionVars,
                       quality_thresholds, quality_report>>

(* the table is read from the configuration file at line 46 *)
InitQuality ==
    /\ \E on \in OnTimes, n \in ClassCounts, fs \in SamplingRates :
          InitTiming(on, n, fs)
    /\ InitBandpass
    /\ notch_checked = FALSE /\ notch_box = <<Num(50), Num(60)>>
    /\ quality_thresholds \in ThresholdTables
    /\ InitSession

NextQuality == \E eeg \in Samples : GetChannelQuality(eeg)

SpecQuality == InitQuality /\ [][NextQuality]_vars

Scored == last.op = "get_channel_quality"

Matching(table, amplitude4) ==
    {i \in 1..Len(table) :
        4 * table[i][1] <= amplitude4 /\ amplitude4 <= 4 * table[i][2]}

\* C8: the quality result is the label and score of the matching entry that
\* comes first in the table (inclusive bounds), and red with score 0 when no
\* entry matches; with the default table an amplitude of 0 gives green 1.0,
\* -75 gives yellow 0.5 and 500 gives red 0.
C8_FirstMatch ==
    Scored =>
      LET m == Matching(quality_thresholds, quality.amplitude4)
      IN  /\ m = {} => quality.color = "red" /\ quality.q_score = 0
          /\ \A i \in m :
                (\A j \in m : i <= j)
                => /\ quality.color = quality_thresholds[i][3]
                   /\ quality.q_score = quality_thresholds[i][4]
          /\ quality_thresholds = DefaultThresholds =>
                /\ quality.amplitude4 = 4 * 0
                   => quality.color = "green" /\ quality.q_score = 10
                /\ quality.amplitude4 = 4 * (-75)
                   => quality.color = "yellow" /\ quality.q_score = 5
                /\ quality.amplitude4 = 4 * 500
                   => quality.color = "red" /\ quality.q_score = 0

\* an amplitude inside two ranges of a table takes the earlier entry
C8_Witness ==
    /\ Scored
    /\ Cardinality(Matching(quality_thresholds, quality.amplitude4)) >= 2
    /\ quality.color = quality_thresholds[1][3]
    /\ quality.color # quality_thresholds[2][3]
    /\ Len(eeg_sample) = WindowLen

-----------------------------------------------------------------------------
(* The sampling tick with the operator editing the filter widgets.        *)

MaxChunks == 1

(* texts typed into the band-pass boxes and the notch box (split at ',') *)
BandLowTexts == {Num(1), Num(-1), BadText}
BandHighTexts == {Num(40), Num(1), Num(70), EmptyText}
NotchTexts ==
    { <<Num(50), Num(60)>>, <<BadText>>, <<Num(50), BadText>>,
      <<Num(50), Num(-5)>>, <<Num(50), Num(70)>>, <<Num(50), Num(1)>> }

(* a widget edited by the operator; the data of the previous tick is gone *)
Edited(widget) ==
    /\ last' = [op |-> widget, arg |-> <<>>, exc |-> "none"]
    /\ calls' = <<>>
    /\ cond' = NoCond
    /\ pre' = Pre
    /\ snap' = 0
    /\ UNCHANGED <<poolVars, configVars, scoreVars, histVars, sessionVars,
                   is_streaming, chunk_counter, filtered_eeg>>

(* bandpass_checkbox, line 168 *)
ToggleBandpass ==
    /\ bandpass_checked' = ~bandpass_checked
    /\ UNCHANGED <<bandpass_box_low, bandpass_box_high, notch_checked, notch_box>>
    /\ Edited("bandpass_checkbox")

(* bandpass_box_low, lines 170-172 *)
SetBandpassLow(text) ==
    /\ bandpass_box_low' = text
    /\ UNCHANGED <<bandpass_checked, bandpass_box_high, notch_checked, notch_box>>
    /\ Edited("bandpass_box_low")

(* bandpass_box_high, lines 174-176 *)
SetBandpassHigh(text) ==
    /\ bandpass_box_high' = text
    /\ UNCHANGED <<bandpass_checked, bandpass_box_low, notch_checked, notch_box>>
    /\ Edited("bandpass_box_high")

(* notch_checkbox, line 180 *)
ToggleNotch ==
    /\ notch_checked' = ~notch_checked
    /\ UNCHANGED <<bandpass_checked, bandpass_box_low, bandpass_box_high, notch_box>>
    /\ Edited("notch_checkbox")

(* notch_box, lines 182-185 *)
SetNotchBox(freqs) ==
    /\ notch_box' = freqs
    /\ UNCHANGED <<bandpass_checked, bandpass_box_low, bandpass_box_high,
                   notch_checked>>
    /\ Edited("notch_box")

(* toggle_stream, lines 550-559 *)
ToggleStream ==
    /\ is_streaming' = ~is_streaming
    /\ calls' = IF is_streaming THEN <<<<"stop_stream", 0>>>>
                                ELSE <<<<"start_stream", 0>>>>
    /\ last' = [op |-> "toggle_stream", arg |-> <<>>, exc |-> "none"]
    /\ cond' = NoCond
    /\ pre' = Pre
    /\ snap' = 0
    /\ UNCHANGED <<poolVars, configVars, guiVars, scoreVars, histVars, sessionVars,
                   chunk_counter, filtered_eeg>>

(* update_data_buffer, lines 259-284, the slot of the sampling timer      *)
(* (lines 112-114).  Nothing is caught here: a zero window_size, a        *)
(* failing pull or a failing filter_data_buffer ends the handler where it *)
(* is.                                                                     *)
UpdateDataBuffer(pull_ok, policy) ==
    LET num_points == window_size * sampling_rate
        pull == <<"get_current_board_data", num_points>>
        f == FilterDataBuffer(FreshData, policy)
    IN  /\ is_streaming
        /\ chunk_counter < MaxChunks
        /\ pre' = Pre
        /\ IF window_size = 0
           THEN /\ calls' = <<>>
                /\ cond' = NoCond
                /\ last' = [op |-> "update_data_buffer", arg |-> <<>>,
                            exc |-> "ValueError"]
                /\ UNCHANGED <<chunk_counter, filtered_eeg>>
           ELSE IF ~pull_ok
           THEN /\ calls' = <<pull>>
                /\ cond' = NoCond
                /\ last' = [op |-> "update_data_buffer", arg |-> <<>>,
                            exc |-> "BoardError"]
                /\ UNCHANGED <<chunk_counter, filtered_eeg>>
           ELSE /\ cond' = [data |-> f.data, log |-> f.log, exc |-> f.exc,
                            policy |-> policy, trace |-> f.trace]
                /\ last' = [op |-> "update_data_buffer", arg |-> <<>>,
                            exc |-> f.exc]
                /\ IF f.exc # "none"
                   THEN /\ calls' = <<pull, <<"filter_data_buffer", num_points>>>>
                        /\ UNCHANGED <<chunk_counter, filtered_eeg>>
                   ELSE /\ chunk_counter' = chunk_counter + 1
                        /\ filtered_eeg' = f.data
                        /\ calls' = <<pull, <<"filter_data_buffer", num_points>>,
                                      <<"get_timestamp_channel", 0>>,
                                      <<"extract_band_powers", 0>>,
                                      <<"push_lsl_raw_eeg", chunk_counter'>>,
                                      <<"push_lsl_band_powers", 0>>>>
        /\ snap' = IF window_size # 0 /\ pull_ok THEN FreshSnapshot(Held) ELSE 0
        /\ UNCHANGED <<poolVars, configVars, guiVars, scoreVars, histVars, sessionVars,
                       is_streaming>>

InitFilter ==
    /\ \E fs \in SamplingRates : InitTiming(250, 4, fs)
    /\ InitBandpass
    /\ notch_checked = FALSE /\ notch_box = <<Num(50), Num(60)>>
    /\ quality_thresholds = DefaultThresholds
    /\ InitSession

NextFilter ==
    \/ ToggleBandpass
    \/ \E text \in BandLowTexts : SetBandpassLow(text)
    \/ \E text \in BandHighTexts : SetBandpassHigh(text)
    \/ ToggleNotch
    \/ \E freqs \in NotchTexts : SetNotchBox(freqs)
    \/ ToggleStream
    \/ \E pull_ok \in BOOLEAN, policy \in Policies : UpdateDataBuffer(pull_ok, policy)

SpecFilter == InitFilter /\ [][NextFilter]_vars

-----------------------------------------------------------------------------
(* Properties of the conditioning stages, read off the data of the tick   *)
(* that has just run.                                                      *)

Ticked == last.op = "update_data_buffer"

StageCalls(stage) == {i \in 1..Len(cond.trace) : cond.trace[i].stage = stage}

BandInvalid(t) ==
    LET low == t.freqs[1][2]
        high == t.freqs[2][2]
    IN  \/ low >= high
        \/ low < 0 \/ high < 0
        \/ 2 * low > sampling_rate \/ 2 * high > sampling_rate

\* C9: after a call of the band-pass stage with low >= high, a negative
\* bound or a bound above half the sampling rate, the channel's samples are
\* the samples it was called with.
C9_DataUntouched ==
    \A i \in StageCalls("bandpass") :
        BandInvalid(cond.trace[i]) => cond.trace[i].after = cond.trace[i].before

\* C9 (amended): after such a call no band-pass has been applied, and the
\* channel's samples are the samples it was called with, constant-detrended
\* once.
C9_DetrendedOnly ==
    \A i \in StageCalls("bandpass") :
        BandInvalid(cond.trace[i])
        => cond.trace[i].after = Append(cond.trace[i].before, <<"detrend", 0, 0>>)

\* a tick whose band-pass boxes hold a valid order but a high bound above
\* half the sampling rate
C9_Witness ==
    /\ Ticked /\ last.exc = "none"
    /\ \E i \in StageCalls("bandpass") :
          LET t == cond.trace[i]
          IN  /\ 0 <= t.freqs[1][2] /\ t.freqs[1][2] < t.freqs[2][2]
              /\ 2 * t.freqs[2][2] > sampling_rate
              /\ t.after # t.before

NotchInvalid(t) ==
    \E k \in 1..Len(t.freqs) :
        \/ t.freqs[k][1] # "num"
        \/ t.freqs[k][2] < 0
        \/ 2 * t.freqs[k][2] > sampling_rate
        \/ LibRejects(cond.policy, t.freqs[k][2] - NotchBandwidth,
                      t.freqs[k][2] + NotchBandwidth)

\* C10: when an entry of the notch list is invalid (negative, above half the
\* sampling rate, unparsable or refused by the library), the channel's
\* samples after the notch stage are those before it, no exception leaves
\* the stage, and the tick goes on to publish its chunk.
C10_AllOrNothing ==
    Ticked =>
      \A i \in StageCalls("notch") :
          NotchInvalid(cond.trace[i])
          => /\ cond.trace[i].after = cond.trace[i].before
             /\ cond.trace[i].exc = "none"
             /\ last.exc = "none"
             /\ Count(calls, "push_lsl_raw_eeg") = 1

Conditioned == Ticked /\ Count(calls, "filter_data_buffer") = 1

FirstOp(ch_data, name) ==
    IF \E i \in 1..Len(ch_data) : ch_data[i][1] = name
    THEN CHOOSE i \in 1..Len(ch_data) :
            /\ ch_data[i][1] = name
            /\ \A j \in 1..(i - 1) : ch_data[j][1] # name
    ELSE Len(ch_data) + 1

\* C11: after every conditioning pass each channel has been constant-
\* detrended, whether the band-pass box is ticked or not and whatever its
\* bounds are, and the detrending comes before any band-pass of the channel.
C11_DetrendAlways ==
    (Conditioned /\ last.exc = "none")
    => \A c \in 1..NumChannels :
          /\ Count(cond.data[c], "detrend") >= 1
          /\ FirstOp(cond.data[c], "detrend") < FirstOp(cond.data[c], "bandpass")

-----------------------------------------------------------------------------
(* The worker pool: ThreadPoolExecutor(max_workers=5), line 69.  Tasks    *)
(* wait in submission order; a free worker takes the oldest waiting task  *)
(* and runs _predict_class on it; each task is run once.                   *)

PoolSize == 5
MaxTasks == 6

Running == {i \in 1..Len(tasks) : tasks[i] = "running"}

Queued == {i \in 1..Len(tasks) : tasks[i] = "queued"}

\* mutant: the tasks submitted after the finished one are lost with it
RemoveFrom(seq, i) == SubSeq(seq, 1, i - 1)

RemoveAt(seq, i) == SubSeq(seq, 1, i - 1) \o SubSeq(seq, i + 1, Len(seq))

\* mutant: a worker takes a waiting task only while another waits behind it
WorkerTakeLeavesLast ==
    /\ Cardinality(Running) < PoolSize
    /\ Cardinality(Queued) >= 2
    /\ \E i \in Queued :
          /\ \A j \in Queued : i <= j
          /\ tasks' = [tasks EXCEPT ![i] = "running"]
    /\ snap' = 0
    /\ UNCHANGED task_data
    /\ calls' = <<>>
    /\ last' = [op |-> "worker_take", arg |-> <<>>, exc |-> "none"]
    /\ pre' = Pre
    /\ UNCHANGED <<training, configVars, guiVars, tickVars, scoreVars,
                   histVars, sessionVars>>

(* a free worker of the executor takes the oldest waiting task *)
WorkerTake ==
    /\ Cardinality(Running) < PoolSize
    /\ \E i \in Queued :
          /\ \A j \in Queued : i <= j
          /\ tasks' = [tasks EXCEPT ![i] = "running"]
    /\ snap' = 0
    /\ UNCHANGED task_data
    /\ calls' = <<>>
    /\ last' = [op |-> "worker_take", arg |-> <<>>, exc |-> "none"]
    /\ pre' = Pre
    /\ UNCHANGED <<training, configVars, guiVars, tickVars, scoreVars,
                   histVars, sessionVars>>

(* _predict_class, lines 448-455, on the task worker i holds *)
WorkerRun(i, predict_ok, push_ok) ==
    LET r == RunTask(predict_ok, push_ok)
    IN  /\ i \in Running
        /\ tasks' = RemoveAt(tasks, i)
        /\ snap' = task_data[i]
        /\ task_data' = Renumber(RemoveAt(task_data, i))
        /\ pending' = pending - 1
        /\ calls' = r.calls
        /\ last' = [op |-> "_predict_class", arg |-> <<i>>, exc |-> r.exc]
        /\ pre' = Pre
        /\ UNCHANGED <<training, configVars, guiVars, tickVars, scoreVars,
                       histVars, prediction_mode, first_prediction,
                       start_training_time, classifier, clf_prediction_mode,
                       now>>

(* the markers of a stimulation run: the boundary marker and one other *)
PoolTriggers == {<<nclasses>>, <<1>>}

InitPool ==
    /\ InitTiming(250, 4, 250)
    /\ InitBandpass
    /\ notch_checked = FALSE /\ notch_box = <<Num(50), Num(60)>>
    /\ quality_thresholds = DefaultThresholds
    /\ InitSession

NextPool ==
    \/ \E trigger \in PoolTriggers :
          WriteTriggerWithin(trigger, TRUE, "none", MaxTasks + 1, MaxTasks)
    \/ \E sig \in {"start_predicting", "stop_predicting"} : SetPredictionMode(sig)
    \/ InitClassifier
    \/ \E pull_ok \in BOOLEAN : UpdateDataBuffer(pull_ok, "none")
    \/ WorkerTake
    \/ \E i \in 1..MaxTasks, predict_ok \in BOOLEAN, push_ok \in BOOLEAN :
          WorkerRun(i, predict_ok, push_ok)

SpecPool == InitPool /\ [][NextPool]_vars

-----------------------------------------------------------------------------
(* Properties of the dispatched tasks *)

TaskRan == last.op = "_predict_class"

Published(cs) ==
    Cardinality({k \in 1..Len(cs) : cs[k] = <<"push_lsl_prediction", 1>>})

\* C12: when predict or the push of its result raises inside a task, the
\* exception is caught and logged in the task, no result goes out for it,
\* and the step changes nothing but the list of outstanding tasks, which
\* loses that task exactly as it does when the task succeeds: prediction
\* mode, first_prediction, start_training_time, the classifier, the
\* streaming state and the widgets are as they were.
C12_FailureContained ==
    [][ (last'.op = "_predict_class" /\ last'.exc # "none")
        => /\ last'.exc = "logged"
           /\ Published(calls') = 0
           /\ pending' = pending - 1
           /\ Len(tasks') = Len(tasks) - 1
           /\ \A k \in 1..Len(tasks') : tasks'[k] \in {"queued", "running"}
           /\ UNCHANGED <<prediction_mode, first_prediction,
                          start_training_time, classifier, clf_prediction_mode,
                          training, is_streaming, chunk_counter, filtered_eeg,
                          configVars, guiVars, histVars>> ]_vars

\* a task whose predict raised, while predicting and with other tasks
\* still outstanding
C12_Witness ==
    /\ TaskRan /\ last.exc = "logged"
    /\ calls = <<<<"predict", 0>>>>
    /\ prediction_mode /\ pending >= 2

PoolSound ==
    /\ pending = Len(tasks)
    /\ \A k \in 1..Len(tasks) : tasks[k] \in {"queued", "running"}
    /\ Cardinality(Running) <= PoolSize
    /\ (Queued # {} /\ Cardinality(Running) < PoolSize) => ENABLED WorkerTake
    /\ \A i \in Running : ENABLED WorkerRun(i, TRUE, TRUE)

\* C13: however many tasks are outstanding, fewer than the pool's five
\* workers, five or more, none is lost and none is run twice: the tasks
\* outstanding are those submitted and not yet run, at most five of them are
\* held by workers and the others wait; a waiting task can be taken as soon
\* as a worker is free and a taken task can run to its end; only the run of
\* a task removes it, and removes it alone; and the run of a task publishes
\* one result when neither predict nor the push raises and none otherwise,
\* whatever happened to the other tasks.
C13_EachTaskOnce ==
    /\ []PoolSound
    /\ [][ IF last'.op = "_predict_class"
           THEN /\ Len(tasks') = Len(tasks) - 1
                /\ pending' = pending - 1
                /\ Cardinality(Queued') = Cardinality(Queued)
                /\ Published(calls') = IF last'.exc = "none" THEN 1 ELSE 0
                /\ Published(calls') <= 1
           ELSE /\ Len(tasks') >= Len(tasks)
                /\ Published(calls') = 0 ]_vars

\* a task publishes its result after running in a full pool with a further
\* task waiting behind it
C13_Witness ==
    /\ TaskRan /\ last.exc = "none" /\ Published(calls) = 1
    /\ pre.pending > PoolSize
    /\ Cardinality(Running) = PoolSize - 1
    /\ Queued # {}

Dispatched == Marker /\ Count(calls, "submit") = 1

\* C14: the handler of a boundary marker that dispatches a prediction ends
\* with the task submitted and not yet run: nothing of the task has been
\* executed in the handler.  And with any number of tasks outstanding,
\* waiting or held by a worker for however long, the sampling tick and the
\* marker handler can run (up to the bounds of the model on chunks, boundary
\* markers and outstanding tasks).
C14_DispatchReturns ==
    /\ Dispatched
       => /\ pending = pre.pending + 1
          /\ tasks # <<>> /\ tasks[Len(tasks)] = "queued"
          /\ Count(calls, "predict") = 0
          /\ Published(calls) = 0
    /\ tasks # <<>>
       => /\ (is_streaming /\ chunk_counter < MaxChunks)
             => ENABLED UpdateDataBuffer(TRUE, "none")
          /\ ENABLED WriteTriggerWithin(<<1>>, TRUE, "none", MaxTasks + 1, MaxTasks)
          /\ (pending < MaxTasks /\ n_boundary < MaxTasks + 1)
             => ENABLED WriteTriggerWithin(<<nclasses>>, TRUE, "none",
                                           MaxTasks + 1, MaxTasks)

\* a dispatch returns while all five workers hold a task that has not ended
C14_Witness ==
    /\ Dispatched
    /\ Cardinality(Running) = PoolSize
    /\ pending = PoolSize + 1

-----------------------------------------------------------------------------
(* Training on the event loop.  train_classifier is the slot of the       *)
(* start_train signal (line 93) and calls classifier.train itself (line   *)
(* 438): the slot has not returned while train runs.  The slots of the    *)
(* stream thread's signals and of the two timers (lines 91-95, 112-118)   *)
(* are delivered one at a time by the event loop of the thread that built *)
(* the Streamer, so none of them starts before the running one returns;   *)
(* the executor's workers and the classifier thread run beside it.         *)

LoopIdle == ~training /\ startup = "running"

(* train_classifier, lines 430-438, up to and including the call of       *)
(* classifier.train                                                        *)
TrainBegin(pull_ok, policy) ==
    LET t == TrainCalls(pull_ok, policy, TRUE)
        entered == Count(t.calls, "train") = 1
    IN  /\ LoopIdle
        /\ calls' = t.calls
        /\ training' = entered
        /\ snap' = Snapshot(t.calls, pull_ok)
        /\ last' = [op |-> "train_classifier", arg |-> <<>>,
                    exc |-> IF entered THEN "in_train" ELSE t.exc]
        /\ pre' = Pre
        /\ UNCHANGED <<tasks, task_data, configVars, guiVars, tickVars,
                       scoreVars, histVars, sessionVars>>

(* classifier.train returns or raises, line 438, and with it the slot *)
TrainReturn(train_ok) ==
    /\ training
    /\ training' = FALSE
    /\ snap' = 0
    /\ calls' = <<>>
    /\ last' = [op |-> "train_return", arg |-> <<>>,
                exc |-> IF train_ok THEN "none" ELSE "TrainError"]
    /\ pre' = Pre
    /\ UNCHANGED <<tasks, task_data, configVars, guiVars, tickVars, scoreVars,
                   histVars, sessionVars>>

(* a slot delivered by the event loop *)
MarkerSlot(trigger, pull_ok, policy) ==
    LoopIdle /\ WriteTrigger(trigger, pull_ok, policy)

ToggleSlot(sig) == LoopIdle /\ SetPredictionMode(sig)

TrainStartSlot == LoopIdle /\ SetTrainStart

TickSlot(pull_ok, policy) == LoopIdle /\ UpdateDataBuffer(pull_ok, policy)

InitTrain ==
    /\ InitTiming(250, 4, 250)
    /\ InitBandpass
    /\ notch_checked = FALSE /\ notch_box = <<Num(50), Num(60)>>
    /\ quality_thresholds = DefaultThresholds
    /\ InitSession

NextTrain ==
    \/ \E trigger \in Triggers, pull_ok \in BOOLEAN :
          MarkerSlot(trigger, pull_ok, "none")
    \/ \E sig \in {"start_predicting", "stop_predicting"} : ToggleSlot(sig)
    \/ TrainStartSlot
    \/ \E pull_ok \in BOOLEAN : TrainBegin(pull_ok, "none")
    \/ \E train_ok \in BOOLEAN : TrainReturn(train_ok)
    \/ \E pull_ok \in BOOLEAN : TickSlot(pull_ok, "none")
    \/ InitClassifier
    \/ \E predict_ok \in BOOLEAN, push_ok \in BOOLEAN :
          WorkerPredict(predict_ok, push_ok)
    \/ TimePasses

SpecTrain == InitTrain /\ [][NextTrain]_vars

\* C15: while a classifier.train call is in progress the sampling tick and
\* the dispatch of a prediction by a boundary marker can be handled (up to
\* the bounds of the model), and no second train call can begin.
C15_TrainInBackground ==
    training
    => /\ (is_streaming /\ chunk_counter < MaxChunks)
          => ENABLED TickSlot(TRUE, "none")
       /\ (prediction_mode /\ ~first_prediction
              /\ n_boundary < MaxBoundaries /\ pending < MaxPending)
          => ENABLED MarkerSlot(<<nclasses>>, TRUE, "none")
       /\ ~ENABLED TrainBegin(TRUE, "none")

(* The router state the session is in: Training while classifier.train    *)
(* runs, TrainingArmed when a start_train would pull and train, which is  *)
(* when start_training_time exists, and Idle otherwise.                    *)
RouterState ==
    IF training THEN "Training"
    ELSE IF start_training_time # NoAttr THEN "TrainingArmed"
    ELSE "Idle"

TrainFinished ==
    \/ last.op = "train_return"
    \/ last.op = "train_classifier" /\ last.exc # "in_train"

\* C16: when a start_train has been handled to its end, train having
\* returned or raised, the router is Idle, prediction_mode and
\* first_prediction are as before, and set_train_start, start_train, markers
\* and the tick can be handled.
C16_BackToIdle ==
    TrainFinished
    => /\ RouterState = "Idle"
       /\ prediction_mode = pre.mode /\ first_prediction = pre.first
       /\ ENABLED TrainStartSlot
       /\ ENABLED TrainBegin(TRUE, "none")
       /\ ENABLED MarkerSlot(<<1>>, TRUE, "none")
       /\ (is_streaming /\ chunk_counter < MaxChunks)
          => ENABLED TickSlot(TRUE, "none")

-----------------------------------------------------------------------------
(* The plot tick: update_plot, the slot of plot_timer (lines 116-118),    *)
(* which pulls a window of its own, conditions it, and has                 *)
(* update_quality_indicators score and publish it.                         *)

(* what the conditioned window of a channel can hold *)
PlotSamples == {<<0>>, <<-75, 500>>}

PlotWindows == [1..NumChannels -> PlotSamples]

(* get_channel_quality, lines 487-497, as a value *)
ChannelQuality(eeg) ==
    LET amplitude4 == Percentile75x4(eeg)
        r == ScanThresholds(quality_thresholds, 1, amplitude4)
    IN  [color |-> r.color, amplitude4 |-> amplitude4, q_score |-> r.q_score]

(* update_quality_indicators, lines 466-485: one result per row *)
QualityReport(window) == [c \in 1..NumChannels |-> ChannelQuality(window[c])]

(* update_plot, lines 344-379; window is what the pulled channels hold    *)
(* after conditioning.  Nothing is caught here.                            *)
UpdatePlot(pull_ok, policy, window) ==
    LET num_points == window_size * sampling_rate
        pull == <<"get_current_board_data", num_points>>
        f == FilterDataBuffer(FreshData, policy)
    IN  /\ is_streaming
        /\ pre' = Pre
        /\ IF window_size = 0
           THEN /\ calls' = <<>>
                /\ cond' = NoCond
                /\ last' = [op |-> "update_plot", arg |-> <<>>,
                            exc |-> "ValueError"]
                /\ UNCHANGED <<eeg_sample, quality, quality_report>>
           ELSE IF ~pull_ok
           THEN /\ calls' = <<pull>>
                /\ cond' = NoCond
                /\ last' = [op |-> "update_plot", arg |-> <<>>,
                            exc |-> "BoardError"]
                /\ UNCHANGED <<eeg_sample, quality, quality_report>>
           ELSE /\ cond' = [data |-> f.data, log |-> f.log, exc |-> f.exc,
                            policy |-> policy, trace |-> f.trace]
                /\ last' = [op |-> "update_plot", arg |-> <<>>, exc |-> f.exc]
                /\ IF f.exc # "none"
                   THEN /\ calls' = <<pull, <<"filter_data_buffer", num_points>>>>
                        /\ UNCHANGED <<eeg_sample, quality, quality_report>>
                   ELSE /\ quality_report' = QualityReport(window)
                        /\ eeg_sample' = window[NumChannels]
                        /\ quality' = ChannelQuality(window[NumChannels])
                        /\ calls' = <<pull, <<"filter_data_buffer", num_points>>,
                                      <<"push_lsl_quality", NumChannels>>>>
        /\ snap' = IF window_size # 0 /\ pull_ok THEN FreshSnapshot(Held) ELSE 0
        /\ UNCHANGED <<poolVars, configVars, guiVars, histVars, sessionVars,
                       is_streaming, chunk_counter, filtered_eeg,
                       quality_thresholds>>

PlotSlot(pull_ok, policy, window) == LoopIdle /\ UpdatePlot(pull_ok, policy, window)

InitPlot ==
    /\ InitTiming(250, 4, 250)
    /\ InitBandpass
    /\ notch_checked = FALSE /\ notch_box = <<Num(50), Num(60)>>
    /\ quality_thresholds = DefaultThresholds
    /\ InitSession

NextPlot ==
    \/ \E pull_ok \in BOOLEAN, window \in PlotWindows :
          PlotSlot(pull_ok, "none", window)
    \/ ToggleStream
    \/ ToggleNotch
    \/ \E freqs \in {<<Num(50), Num(60)>>, <<BadText>>} : SetNotchBox(freqs)
    \/ \E sig \in {"start_predicting", "stop_predicting"} : ToggleSlot(sig)
    \/ MarkerSlot(BoundaryTrigger, TRUE, "none")
    \/ TrainStartSlot
    \/ InitClassifier

SpecPlot == InitPlot /\ [][NextPlot]_vars

PlotTicked == last.op = "update_plot"

\* C17: every tick that has pulled a snapshot while streaming has computed
\* one quality result per channel from it and published the report,
\* whatever prediction_mode, first_prediction and start_training_time are.
C17_QualityEveryTick ==
    (PlotTicked /\ last.exc # "BoardError")
    => /\ Count(calls, "push_lsl_quality") = 1
       /\ Len(quality_report) = NumChannels
       /\ quality = quality_report[NumChannels]

-----------------------------------------------------------------------------
(* Construction: __init__, lines 34-133, with the window_size argument    *)
(* and the sampling rate the board reports.  The slots are served by      *)
(* app.exec_() at line 133, the last statement of __init__.                *)

WindowSizes == {-1, 0, 1}
BoardRates == {-250, 0, 250}

\* mutant: nothing is evaluated on the way that raises
StartupOutcomeUnchecked(w, fs) == "running"

(* the statement of __init__ that raises for this configuration, if any:  *)
(* 1000 / window_size at line 49 (the default of config.get is evaluated  *)
(* whatever the file holds), time.sleep(window_size) at line 51, np.zeros *)
(* with num_points columns at line 64, and in init_plot, called at line   *)
(* 104, range(0, num_points, int(sampling_rate / 2)) at line 300           *)
StartupOutcome(w, fs) ==
    IF w = 0 THEN "raised_49"
    ELSE IF w < 0 THEN "raised_51"
    ELSE IF w * fs < 0 THEN "raised_64"
    ELSE IF PyInt(fs, 2) = 0 THEN "raised_300"
    ELSE "running"

(* __init__ runs to app.exec_() or to the statement that raises *)
Construct ==
    /\ startup = "new"
    /\ startup' = StartupOutcome(window_size, sampling_rate)
    /\ last' = [op |-> "__init__", arg |-> <<>>,
                exc |-> IF startup' = "running" THEN "none"
                        ELSE IF startup' = "raised_49" THEN "ZeroDivisionError"
                        ELSE "ValueError"]
    /\ calls' = <<>>
    /\ pre' = Pre
    /\ snap' = 0
    /\ UNCHANGED <<poolVars, on_time, nclasses, sampling_rate, window_size,
                   off_time, prediction_interval, prediction_datapoints,
                   guiVars, tickVars, scoreVars, histVars, sessionVars>>

(* classifier_thread is started at line 72 and runs init_classifier       *)
(* whether or not __init__ gets further                                    *)
ClassifierThread ==
    /\ startup \in {"running", "raised_300"}
    /\ InitClassifier

InitStartup ==
    /\ \E fs \in BoardRates : InitTiming(250, 4, fs)
    /\ window_size \in WindowSizes
    /\ startup = "new"
    /\ InitBandpass
    /\ notch_checked = FALSE /\ notch_box = <<Num(50), Num(60)>>
    /\ quality_thresholds = DefaultThresholds
    /\ InitAttributes

NextStartup ==
    \/ Construct
    \/ ClassifierThread
    \/ \E trigger \in Triggers, pull_ok \in BOOLEAN :
          MarkerSlot(trigger, pull_ok, "none")
    \/ \E sig \in {"start_predicting", "stop_predicting"} : ToggleSlot(sig)
    \/ TrainStartSlot
    \/ \E pull_ok \in BOOLEAN, train_ok \in BOOLEAN :
          LoopIdle /\ TrainClassifier(pull_ok, "none", train_ok)
    \/ \E pull_ok \in BOOLEAN : TickSlot(pull_ok, "none")
    \/ \E predict_ok \in BOOLEAN, push_ok \in BOOLEAN :
          WorkerPredict(predict_ok, push_ok)

SpecStartup == InitStartup /\ [][NextStartup]_vars

BadConfig == window_size <= 0 \/ sampling_rate <= 0

\* C18: a session whose window size is zero or negative, or whose sampling
\* rate is not positive, never gets its event loop: __init__ raises first,
\* and no tick pulls from the board, no marker is inserted and no training
\* start or training call is handled in it.
C18_BadConfigNeverRuns ==
    BadConfig
    => /\ startup # "running"
       /\ last.op \in {"__init__", "init_classifier"}
       /\ \A k \in 1..Len(calls) :
             calls[k][1] \notin {"get_current_board_data", "insert_marker", "train"}
       /\ chunk_counter = 0
       /\ start_training_time = NoAttr
       /\ ~training

\* __init__ has raised on a zero window size
C18_Witness ==
    /\ window_size = 0 /\ sampling_rate > 0
    /\ startup = "raised_49"
    /\ last = [op |-> "__init__", arg |-> <<>>, exc |-> "ZeroDivisionError"]

Parses(text) == text[1] # "bad"

BandWanted ==
    /\ bandpass_checked
    /\ Parses(bandpass_box_low) /\ Parses(bandpass_box_high)
    /\ LET low == BoxValue(bandpass_box_low)
           high == BoxValue(bandpass_box_high)
       IN  /\ 0 <= low /\ low < high
           /\ 2 * high <= sampling_rate

NotchWanted ==
    /\ notch_checked
    /\ \A k \in 1..Len(notch_box) :
          /\ notch_box[k][1] = "num"
          /\ 0 <= notch_box[k][2] /\ 2 * notch_box[k][2] <= sampling_rate
          /\ ~LibRejects(cond.policy, notch_box[k][2] - NotchBandwidth,
                         notch_box[k][2] + NotchBandwidth)

OpsAt(ch_data, names) == {k \in 1..Len(ch_data) : ch_data[k][1] \in names}

\* C19: after a conditioning pass, on every channel the band-pass stage's
\* operations come before the band-stops of the notch stage; the band-pass
\* has been applied exactly when its box is ticked and its bounds are
\* acceptable, whatever the notch box holds, and the band-stops have all
\* been applied exactly when the notch box is ticked and its list is
\* acceptable, whatever the band-pass boxes hold.
C19_StagesIndependent ==
    (Ticked /\ last.exc # "BoardError")
    => \A c \in 1..NumChannels :
          /\ \A i \in OpsAt(cond.data[c], {"detrend", "bandpass"}) :
                \A j \in OpsAt(cond.data[c], {"bandstop"}) : i < j
          /\ Count(cond.data[c], "bandpass") = 1 <=> BandWanted
          /\ Count(cond.data[c], "bandstop") = Len(notch_box) <=> NotchWanted

-----------------------------------------------------------------------------
(* Orthogonality of training and predicting *)

\* C20: set_train_start and train_classifier leave prediction_mode and
\* first_prediction as they found them, and set_prediction_mode and
\* write_trigger leave start_training_time as they found it.
C20_Orthogonal ==
    /\ last.op \in {"set_train_start", "train_classifier"}
       => prediction_mode = pre.mode /\ first_prediction = pre.first
    /\ last.op \in {"start_predicting", "stop_predicting", "write_trigger"}
       => start_training_time = pre.start

\* a training call handled while predicting, after the first boundary marker
C20_Witness ==
    /\ last.op = "train_classifier" /\ Count(calls, "train") = 1
    /\ prediction_mode /\ ~first_prediction
    /\ start_training_time # NoAttr

-----------------------------------------------------------------------------
(* The workers beside the handlers: who touches which array.              *)

\* C21: under every interleaving of ticks, markers and worker steps, the run
\* of a task leaves prediction_mode, first_prediction and
\* start_training_time as it found them, and works on the array its task was
\* submitted with, which no other outstanding task held; no two outstanding
\* tasks hold the same array; and the array a tick or a marker handler pulls
\* and conditions is one that no outstanding task held when it was pulled.
C21_SnapshotNotShared ==
    /\ Len(task_data) = Len(tasks)
    /\ \A j, k \in 1..Len(task_data) : j # k => task_data[j] # task_data[k]
    /\ TaskRan => /\ prediction_mode = pre.mode
                  /\ first_prediction = pre.first
                  /\ start_training_time = pre.start
                  /\ Cardinality({k \in 1..Len(pre.data) : pre.data[k] = snap}) = 1
    /\ ~TaskRan => \A k \in 1..Len(pre.data) : pre.data[k] # snap

\* a worker has run its task on its array while two other tasks hold theirs
C21_Witness ==
    /\ TaskRan
    /\ snap # 0
    /\ Len(pre.data) = 3
    /\ Len(task_data) = 2

-----------------------------------------------------------------------------
(* The steps of a dispatch *)

DispatchCalls ==
    <<<<"insert_marker", nclasses>>, <<"predict_class", 0>>,
      <<"get_current_board_data", prediction_datapoints>>,
      <<"filter_data_buffer", prediction_datapoints>>,
      <<"submit", prediction_datapoints>>>>

\* C22: a boundary marker that requests a prediction has its marker inserted
\* first, then prediction_datapoints samples are asked of the board, then the
\* array is conditioned, then it is submitted, in that order and each once.
\* When the pull raises the handler stops after the pull, and when the
\* conditioning raises it stops after the conditioning: nothing is submitted,
\* the exception is caught and logged in the handler, and prediction_mode,
\* first_prediction and start_training_time are as they were.
C22_DispatchOrder ==
    (Marker /\ Requests(calls) = 1)
    => /\ last.arg = BoundaryTrigger
       /\ IsPrefix(calls, DispatchCalls)
       /\ Len(calls) >= 3
       /\ IF last.exc = "none"
          THEN /\ calls = DispatchCalls
               /\ pending = pre.pending + 1
               /\ Len(task_data) = Len(pre.data) + 1
          ELSE /\ last.exc = "logged"
               /\ Len(calls) \in {3, 4}
               /\ Count(calls, "submit") = 0
               /\ pending = pre.pending
               /\ task_data = pre.data
       /\ prediction_mode = pre.mode
       /\ first_prediction = pre.first
       /\ start_training_time = pre.start

\* a boundary marker that went through all four steps
C22_Witness ==
    /\ Marker
    /\ last.arg = BoundaryTrigger
    /\ calls = DispatchCalls
    /\ last.exc = "none"
    /\ pending = pre.pending + 1

-----------------------------------------------------------------------------
(* The pool under fair scheduling.  The executor's workers are threads of *)
(* their own (line 69): an idle worker blocks on the work queue and is    *)
(* woken when a task is put on it, and a worker that has taken a task     *)
(* runs _predict_class, which ends when classifier.predict and the push   *)
(* return or raise (lines 448-455).  So a take that stays possible is     *)
(* made, and a task that a worker holds is run to its end.                *)

SpecPoolFair ==
    /\ SpecPool
    /\ WF_vars(WorkerTake)
    /\ \A i \in 1..MaxTasks :
          WF_vars(\E predict_ok \in BOOLEAN, push_ok \in BOOLEAN :
                      WorkerRun(i, predict_ok, push_ok))

(* the tasks that have ended: in this specification every request is     *)
(* submitted, as no pull and no conditioning raises                       *)
Finished == n_request - pending

\* C23: with the workers scheduled fairly and every predict call returning
\* or raising, every submitted task ends, whether it was taken at once or
\* waited behind five running ones: the markers of a run being finitely
\* many, the pool is empty again and again, so that no submitted task stays
\* outstanding forever.  A task ends in one of two ways: its result is
\* pushed to the prediction outlet, once, or its exception is logged and
\* nothing is pushed.
C23_EveryTaskEnds ==
    /\ [](pending = Len(tasks) /\ Finished >= 0)
    /\ [](TaskRan => \/ /\ last.exc = "none"
                        /\ Published(calls) = 1
                        /\ Count(calls, "push_lsl_prediction") = 1
                     \/ /\ last.exc = "logged"
                        /\ Published(calls) = 0)
    /\ []<>(tasks = <<>> /\ Finished = n_request)

\* a task has ended while another waited behind a pool whose five workers
\* all held a task
C23_Witness ==
    /\ TaskRan
    /\ Len(pre.data) = PoolSize + 1
    /\ Cardinality(Running) = PoolSize - 1
    /\ Cardinality(Queued) = 1

-----------------------------------------------------------------------------
(* Training requested without being armed *)

\* C24: a start_train pulls samples and calls classifier.train only when a
\* set_train_start has come since the previous start_train, or since
\* startup: a start_train before any set_train_start, and a start_train
\* that is the next signal after a training has returned, pull nothing and
\* train nothing.
C24_TrainOnlyWhenArmed ==
    [][ (last'.op = "train_classifier"
         /\ (start_training_time = NoAttr \/ last.op = "train_return"))
        => /\ Count(calls', "get_current_board_data") = 0
           /\ Count(calls', "train") = 0 ]_vars

-----------------------------------------------------------------------------
(* The two prediction signals *)

\* C25: whatever start_predicting and stop_predicting signals have come,
\* repeated, unmatched or before the classifier exists, prediction_mode is
\* true when a start_predicting has been handled and false when a
\* stop_predicting has been handled, and the flag the classifier was given
\* is then the flag of the Streamer.
C25_FlagFollowsSignal ==
    /\ last.op = "start_predicting" => prediction_mode
    /\ last.op = "stop_predicting" => ~prediction_mode
    /\ last.op \in {"start_predicting", "stop_predicting"}
       => clf_prediction_mode = prediction_mode

====
